---- MODULE Spec2Model ----
(***************************************************************************)
(* keyed: a ptrace tracer that replaces the entropy a child reads from the *)
(* kernel by a ChaCha20 keystream (src/keyed.c).  The model holds the      *)
(* tracer's loop (main, lines 174-330), split at its two waitpid calls,    *)
(* and the traced child with the part of the kernel the loop talks to:     *)
(* the child's registers, descriptor table and memory.                     *)
(*                                                                         *)
(* The tracer blocks in waitpid at two places (lines 183 and 285); each    *)
(* handler below is the code from one waitpid to the next.  ptrace calls   *)
(* on a live, stopped child and malloc are taken to succeed; a ptrace call *)
(* on a child that is gone fails.  waitpid reports every stop of the       *)
(* child, and the code does not look at the status it reports.             *)
(*                                                                         *)
(* SpecSync: the child stops for system calls only.                        *)
(* Spec:     the child may also stop for the delivery of a signal.         *)
(***************************************************************************)
EXTENDS Integers, Sequences

(* ------------------------------ bounds -------------------------------- *)

\* Number of system calls the child issues in one run.
MaxCalls == 4
\* Largest byte count the child asks for.
MaxSize == 2
\* Highest descriptor number of the child's table (0..2 are its stdio).
MaxFd == 4
\* Number of signal-delivery stops the child reports in one run.
MaxSignals == 1

(* ------------------------- program constants -------------------------- *)

\* countof(monitor_fd)
Capacity == 16
\* sizeof(path)
PathLen == 13
\* fake_pid when -p is not given, and when -p has no value
NoFakePid == -1
DefaultFakePid == 2
\* regs.orig_rax written to disarm a system call
InvalidSyscall == -1
\* EXIT_FAILURE, the status of fatal()
ExitFailure == 1

\* x86-64 system call numbers the switch statements name
SYS_read == 0
SYS_write == 1
SYS_open == 2
SYS_close == 3
SYS_dup2 == 33
SYS_getpid == 39
SYS_exit == 60
SYS_exit_group == 231
SYS_openat == 257
SYS_getrandom == 318

\* kernel return values (negated errno)
ENOENT == -2
EBADF == -9
EFAULT == -14
EMFILE == -24
ENOSYS == -38

\* the child's real process id
RealPid == 77

(* --------------------------- child memory ----------------------------- *)

\* Two buffers of the child.  BufA is mapped for any count asked; BufB is
\* the last byte of a mapping, so a longer transfer to it is cut short.
BufA == 100
BufB == 200
Bufs == {BufA, BufB}

Mapped(a) == IF a = BufA THEN MaxSize + 1 ELSE IF a = BufB THEN 1 ELSE 0

\* A byte the kernel itself produced (file data, host entropy).
HostByte == -1

NUL == "NUL"

\* The literals of lines 218-219, with their terminating NUL.
DevRandom == <<"/", "d", "e", "v", "/", "r", "a", "n", "d", "o", "m", NUL>>
DevURandom == <<"/", "d", "e", "v", "/", "u", "r", "a", "n", "d", "o", "m", NUL>>

\* Path strings in the child's memory: pointer -> the bytes mapped from it.
PUrandom == 300
PRandom == 301
PRandomEdge == 302
PUrandomXYZ == 303
PPrefix == 304
PFile == 305
PTrunc == 306
PBad == 307

ChildPathMem(p) ==
    CASE p = PUrandom -> DevURandom \o <<"z">>
      [] p = PRandom -> DevRandom \o <<"z", "z">>
      \* "/dev/random" ending exactly at the end of a mapping
      [] p = PRandomEdge -> DevRandom
      [] p = PUrandomXYZ -> SubSeq(DevURandom, 1, 12) \o <<"X", "Y", "Z", NUL>>
      [] p = PPrefix -> <<"/", "d", "e", "v", "/", "r", "a", "n", "d", NUL, "z", "z", "z", "z">>
      [] p = PFile -> <<"/", "e", "t", "c", "/", "p", "a", "s", "s", "w", "d", NUL, "z", "z">>
      \* an unterminated string at the end of a mapping
      [] p = PTrunc -> <<"/", "d", "e", "v", "/", "u", "r", "a">>
      [] OTHER -> <<>>

OpenPaths == {PUrandom, PRandom, PRandomEdge, PUrandomXYZ, PPrefix, PFile, PTrunc, PBad}
OpenatPaths == {PUrandom, PFile}

Min(a, b) == IF a < b THEN a ELSE b

(* ------------------------------ state --------------------------------- *)

VARIABLES
    \* the tracer (locals of main)
    pc,           \* "wait_entry": in waitpid of line 183; "wait_exit": in
                  \* waitpid of line 285; "exited": the process has ended
    exit_status,  \* the tracer's exit status, once pc = "exited"
    fake_pid,
    monitor_fd,   \* monitor_fd[0..nmonitor-1], as a sequence
    buflen,
    buf,          \* the bytes of buf the last crypto_stream_chacha20 wrote
    syscall,
    size,
    dest,
    capture_fd,
    \* the child and the kernel
    cstate,       \* "run_user", "run_kernel", "stop_entry", "stop_exit",
                  \* "stop_signal", "dead"
    regs,         \* the child's user registers
    mem,          \* the child's buffers: address -> bytes written so far
    fdtab,        \* the child's descriptor table: fd -> what it refers to
    ncalls,
    nsignals,
    \* history, read by the properties only
    opt_p,        \* the -p option of the command line
    cur,          \* the registers of the child's latest system call at entry
    ks_total,     \* sum of the sizes of the keystream fills so far
    legit         \* values returned by an open(2) of an entropy device and
                  \* not passed to close(2) since

tracer_vars == <<pc, exit_status, fake_pid, monitor_fd, buflen, buf, syscall, size,
                 dest, capture_fd>>
child_vars == <<cstate, regs, mem, fdtab, ncalls, nsignals>>
hist_vars == <<opt_p, cur, ks_total, legit>>
vars == <<tracer_vars, child_vars, hist_vars>>

nmonitor == Len(monitor_fd)

Range(s) == {s[i] : i \in DOMAIN s}

Fds == 3..MaxFd

(* ------------------------- pure parts of main ------------------------- *)

\* exit(regs.rdi): the low eight bits reach the parent.
ExitCode(x) == x % 256

\* case 'p': fake_pid = optarg ? atoi(optarg) : 2, over the initial -1.
ParseFakePid(opt) ==
    IF opt.given
    THEN IF opt.hasarg THEN opt.arg ELSE DefaultFakePid
    ELSE NoFakePid

\* Byte i of ChaCha20(key, nonce 0): an injective stand-in over the model's range.
KSByte(i) == 16 + 3 * i

Keystream(off, n) == [i \in 1..n |-> KSByte(off + i - 1)]

\* crypto_stream_chacha20(buf, size, nonce, key): the first size bytes of the stream.
crypto_stream_chacha20(n) == Keystream(0, n)

\* memcmp(a, b, n) == 0
MemEq(a, b, n) == SubSeq(a, 1, n) = SubSeq(b, 1, n)

\* The test of lines 218-219 on the fetched path buffer.
IsEntropyPath(path) == MemEq(path, DevRandom, 12) \/ MemEq(path, DevURandom, 13)

\* The loops of close and read: index of the first entry equal to fd, 0 if none.
MonitorIndex(M, fd) ==
    IF \E i \in 1..Len(M) : M[i] = fd
    THEN CHOOSE i \in 1..Len(M) : M[i] = fd /\ \A j \in 1..(i - 1) : M[j] # fd
    ELSE 0

\* monitor_fd[i] = monitor_fd[--nmonitor]
RemoveAt(M, i) == [j \in 1..(Len(M) - 1) |-> IF j = i THEN M[Len(M)] ELSE M[j]]

CloseMonitor(M, fd) ==
    LET i == MonitorIndex(M, fd)
    IN  IF i = 0 THEN M ELSE RemoveAt(M, i)

\* monitor_fd[nmonitor++] = fd
AddMonitor(M, fd) == Append(M, fd)

\* What the stack slot of path may hold before the fetch: it is not
\* initialised, so whatever an earlier use of the slot left there.
StalePaths == {[i \in 1..PathLen |-> NUL], DevURandom}

\* process_vm_readv of sizeof(path) bytes at p: the count moved, -1 if none.
PathFetchCount(p) ==
    IF Len(ChildPathMem(p)) = 0 THEN -1 ELSE Min(PathLen, Len(ChildPathMem(p)))

\* path after the fetch: the bytes moved, then what the slot held.
PathFetched(p, stale) ==
    LET n == PathFetchCount(p)
    IN  SubSeq(ChildPathMem(p), 1, n) \o SubSeq(stale, n + 1, PathLen)

\* process_vm_writev of n bytes to address a: the count moved, -1 if none.
WriteCount(a, n) == IF Mapped(a) = 0 THEN -1 ELSE Min(n, Mapped(a))

Overlay(old, new) == new \o SubSeq(old, Len(new) + 1, Len(old))

(* ------------------------------ tracer -------------------------------- *)

Stops == {"stop_entry", "stop_exit", "stop_signal"}

\* PTRACE_SYSCALL: a child stopped at a system call's entry runs the call;
\* a child stopped anywhere else runs its own code.
Resumed(cs) == IF cs = "stop_entry" THEN "run_kernel" ELSE "run_user"

\* A capacity test that lets one entry too many in.
MonitorFullLate(M) == Len(M) = Capacity + 1

\* if (nmonitor == (int)countof(monitor_fd))
MonitorFull(M) == Len(M) = Capacity

\* The first switch (lines 192-266) on the registers r with the tracked
\* descriptors M: what it leaves in size, dest, capture_fd and monitor_fd,
\* and whether it ends in fatal().  Register values of the model fit an int,
\* so the narrowing of "int fd = regs.rdi" changes none of them.
Classify(r, M, stale) ==
    LET none == [fatal |-> FALSE, capture |-> FALSE, size |-> 0, dest |-> 0, monitor |-> M]
    IN  CASE r.orig_rax = SYS_open ->
                IF PathFetchCount(r.rdi) = -1
                THEN [none EXCEPT !.fatal = TRUE]
                ELSE IF IsEntropyPath(PathFetched(r.rdi, stale))
                     THEN IF MonitorFull(M)
                          THEN [none EXCEPT !.fatal = TRUE]
                          ELSE [none EXCEPT !.capture = TRUE]
                     ELSE none
          [] r.orig_rax = SYS_close ->
                [none EXCEPT !.monitor = CloseMonitor(M, r.rdi)]
          [] r.orig_rax = SYS_read ->
                IF MonitorIndex(M, r.rdi) # 0
                THEN [none EXCEPT !.dest = r.rsi, !.size = r.rdx]
                ELSE none
          [] r.orig_rax = SYS_getrandom ->
                [none EXCEPT !.dest = r.rdi, !.size = r.rsi]
          [] OTHER -> none

\* A buffer that is resized to every request, larger or smaller.
GrowBufferAlways(len, n) == n

\* if (buflen < size) { ...; buflen = size; ... }
GrowBuffer(len, n) == IF len < n THEN n ELSE len

\* The second switch (lines 318-329): the value poked into RAX, if any.
ForgePid(nr, fake, rax) == IF nr = SYS_getpid /\ fake # NoFakePid THEN fake ELSE rax

\* exit() and fatal(): the tracer ends, and PTRACE_O_EXITKILL takes the child.
Terminate(st) ==
    /\ pc' = "exited"
    /\ exit_status' = st
    /\ cstate' = "dead"

\* Lines 183-283: the stop the loop takes for a system call's entry.
EntryStop ==
    /\ pc = "wait_entry"
    /\ cstate \in Stops
    /\ \E stale \in StalePaths :
         LET c == Classify(regs, monitor_fd, stale)
         IN  IF regs.orig_rax \in {SYS_exit, SYS_exit_group}
             THEN /\ Terminate(ExitCode(regs.rdi))
                  /\ UNCHANGED <<monitor_fd, buflen, syscall, size, dest, capture_fd, regs>>
             ELSE IF c.fatal
             THEN /\ Terminate(ExitFailure)
                  /\ UNCHANGED <<monitor_fd, buflen, syscall, size, dest, capture_fd, regs>>
             ELSE /\ syscall' = regs.orig_rax
                  /\ capture_fd' = c.capture
                  /\ size' = c.size
                  /\ dest' = c.dest
                  /\ monitor_fd' = c.monitor
                  /\ regs' = IF c.size > 0
                             THEN [regs EXCEPT !.orig_rax = InvalidSyscall]
                             ELSE regs
                  /\ buflen' = IF c.size > 0 THEN GrowBuffer(buflen, c.size) ELSE buflen
                  /\ cstate' = Resumed(cstate)
                  /\ pc' = "wait_exit"
                  /\ UNCHANGED exit_status
    /\ UNCHANGED <<fake_pid, buf, mem, fdtab, ncalls, nsignals, hist_vars>>

\* Lines 285-329 and 181: the stop the loop takes for a system call's exit.
ExitStop ==
    /\ pc = "wait_exit"
    /\ cstate \in Stops
    /\ LET n == IF size > 0 THEN WriteCount(dest, size) ELSE 0
           filled == IF size > 0 THEN crypto_stream_chacha20(size) ELSE buf
           poked == IF size > 0 THEN [regs EXCEPT !.rax = size] ELSE regs
       IN  /\ buf' = filled
           /\ ks_total' = ks_total + size
           /\ IF n = -1
              THEN /\ Terminate(ExitFailure)
                   /\ UNCHANGED <<monitor_fd, syscall, size, dest, capture_fd, regs, mem>>
              ELSE /\ mem' = IF size > 0
                             THEN [mem EXCEPT ![dest] = Overlay(@, SubSeq(filled, 1, n))]
                             ELSE mem
                   /\ monitor_fd' = IF capture_fd
                                    THEN AddMonitor(monitor_fd, poked.rax)
                                    ELSE monitor_fd
                   /\ regs' = [poked EXCEPT !.rax = ForgePid(syscall, fake_pid, @)]
                   \* size, capture_fd, dest and syscall are locals of the loop body
                   /\ size' = 0
                   /\ capture_fd' = FALSE
                   /\ dest' = 0
                   /\ syscall' = 0
                   /\ cstate' = Resumed(cstate)
                   /\ pc' = "wait_entry"
                   /\ UNCHANGED exit_status
    /\ UNCHANGED <<fake_pid, buflen, fdtab, ncalls, nsignals, opt_p, cur, legit>>

\* A ptrace call on a child that is gone fails and ends in fatal()
\* (lines 181-189, 283-286, 301-304, 310-311, 323-324).
ChildGone ==
    /\ pc \in {"wait_entry", "wait_exit"}
    /\ cstate = "dead"
    /\ pc' = "exited"
    /\ exit_status' = ExitFailure
    /\ UNCHANGED <<fake_pid, monitor_fd, buflen, buf, syscall, size, dest, capture_fd,
                   child_vars, hist_vars>>

(* ------------------------- child and kernel --------------------------- *)

AT_FDCWD == -100

\* Descriptor values the child passes: its table's, and the value a failed
\* open returned.
FdArgs == Fds \cup {ENOENT}

ExitStatuses == {0, 7}

Call(nr, a, b, c) == [orig_rax |-> nr, rax |-> ENOSYS, rdi |-> a, rsi |-> b, rdx |-> c]

\* The system calls the child may issue, as its registers at entry.
Calls ==
    {Call(SYS_read, fd, BufA, n) : fd \in FdArgs, n \in 0..MaxSize}
    \cup {Call(SYS_getrandom, b, n, 0) : b \in Bufs, n \in 0..MaxSize}
    \cup {Call(SYS_open, p, 0, 0) : p \in OpenPaths}
    \cup {Call(SYS_openat, AT_FDCWD, p, 0) : p \in OpenatPaths}
    \cup {Call(SYS_close, fd, 0, 0) : fd \in FdArgs}
    \cup {Call(SYS_dup2, d[1], d[2], 0) : d \in {e \in Fds \X Fds : e[1] # e[2]}}
    \cup {Call(SYS_getpid, 0, 0, 0), Call(SYS_write, 1, BufA, 1)}
    \cup {Call(nr, s, 0, 0) : nr \in {SYS_exit, SYS_exit_group}, s \in ExitStatuses}

\* The NUL-terminated string at p, with its NUL; <<>> if the mapping ends first.
CString(p) ==
    LET b == ChildPathMem(p)
    IN  IF \E i \in 1..Len(b) : b[i] = NUL
        THEN SubSeq(b, 1, CHOOSE i \in 1..Len(b) : b[i] = NUL /\ \A j \in 1..(i - 1) : b[j] # NUL)
        ELSE <<>>

IsEntropyName(str) == str \in {DevRandom, DevURandom}

IsOpenFd(tab, fd) == fd \in DOMAIN tab /\ tab[fd] # "closed"

LowestFree(tab) == CHOOSE fd \in DOMAIN tab : tab[fd] = "closed" /\ \A g \in DOMAIN tab : g < fd => tab[g] # "closed"

\* open/openat of the string at p: the possible (return value, table) pairs.
\* An entropy device may be absent or forbidden to the child.
OpenOutcomes(p, tab) ==
    LET str == CString(p)
        full == \A fd \in DOMAIN tab : tab[fd] # "closed"
        made(kind) == IF full THEN [ret |-> EMFILE, tab |-> tab]
                      ELSE [ret |-> LowestFree(tab), tab |-> [tab EXCEPT ![LowestFree(tab)] = kind]]
    IN  IF str = <<>> THEN {[ret |-> EFAULT, tab |-> tab]}
        ELSE IF IsEntropyName(str) THEN {made("entropy"), [ret |-> ENOENT, tab |-> tab]}
        ELSE IF str = CString(PFile) THEN {made("file")}
        ELSE {[ret |-> ENOENT, tab |-> tab]}

\* A transfer by the kernel itself of n of its own bytes to address a.
KernelFill(m, a, n) ==
    IF Mapped(a) < n THEN [ret |-> EFAULT, mem |-> m]
    ELSE [ret |-> n, mem |-> [m EXCEPT ![a] = Overlay(@, [i \in 1..n |-> HostByte])]]

\* The child's code reaches its next system call: the syscall-entry stop.
ChildEnter ==
    /\ cstate = "run_user"
    /\ ncalls < MaxCalls
    /\ \E c \in Calls :
         /\ regs' = c
         /\ cur' = c
    /\ ncalls' = ncalls + 1
    /\ cstate' = "stop_entry"
    /\ UNCHANGED <<tracer_vars, mem, fdtab, nsignals, opt_p, ks_total, legit>>

\* A signal reaches the child while it runs its own code: a signal-delivery
\* stop, which waitpid reports like any other stop.
SignalStop ==
    /\ cstate = "run_user"
    /\ nsignals < MaxSignals
    /\ nsignals' = nsignals + 1
    /\ regs' = [regs EXCEPT !.orig_rax = InvalidSyscall]
    /\ cstate' = "stop_signal"
    /\ UNCHANGED <<tracer_vars, mem, fdtab, ncalls, hist_vars>>

\* The kernel runs the system call the registers name, then the child stops
\* at the syscall-exit stop (exit and exit_group end the child instead).
KernelExec ==
    /\ cstate = "run_kernel"
    /\ LET nr == regs.orig_rax
           path == IF nr = SYS_open THEN regs.rdi ELSE regs.rsi
       IN  CASE nr \in {SYS_exit, SYS_exit_group} ->
                  /\ cstate' = "dead"
                  /\ UNCHANGED <<regs, mem, fdtab, legit>>
             [] nr \in {SYS_open, SYS_openat} ->
                  /\ \E o \in OpenOutcomes(path, fdtab) :
                       /\ regs' = [regs EXCEPT !.rax = o.ret]
                       /\ fdtab' = o.tab
                       /\ legit' = IF nr = SYS_open /\ IsEntropyName(CString(path))
                                   THEN legit \cup {o.ret}
                                   ELSE legit
                  /\ cstate' = "stop_exit"
                  /\ UNCHANGED mem
             [] nr = SYS_close ->
                  /\ regs' = [regs EXCEPT !.rax = IF IsOpenFd(fdtab, regs.rdi) THEN 0 ELSE EBADF]
                  /\ fdtab' = IF IsOpenFd(fdtab, regs.rdi)
                              THEN [fdtab EXCEPT ![regs.rdi] = "closed"]
                              ELSE fdtab
                  /\ legit' = legit \ {regs.rdi}
                  /\ cstate' = "stop_exit"
                  /\ UNCHANGED mem
             [] nr = SYS_dup2 ->
                  /\ regs' = [regs EXCEPT !.rax = IF IsOpenFd(fdtab, regs.rdi) THEN regs.rsi ELSE EBADF]
                  /\ fdtab' = IF IsOpenFd(fdtab, regs.rdi)
                              THEN [fdtab EXCEPT ![regs.rsi] = fdtab[regs.rdi]]
                              ELSE fdtab
                  /\ cstate' = "stop_exit"
                  /\ UNCHANGED <<mem, legit>>
             [] nr = SYS_read ->
                  /\ LET r == IF IsOpenFd(fdtab, regs.rdi)
                              THEN KernelFill(mem, regs.rsi, regs.rdx)
                              ELSE [ret |-> EBADF, mem |-> mem]
                     IN  /\ regs' = [regs EXCEPT !.rax = r.ret]
                         /\ mem' = r.mem
                  /\ cstate' = "stop_exit"
                  /\ UNCHANGED <<fdtab, legit>>
             [] nr = SYS_getrandom ->
                  /\ LET r == KernelFill(mem, regs.rdi, regs.rsi)
                     IN  /\ regs' = [regs EXCEPT !.rax = r.ret]
                         /\ mem' = r.mem
                  /\ cstate' = "stop_exit"
                  /\ UNCHANGED <<fdtab, legit>>
             [] nr = SYS_getpid ->
                  /\ regs' = [regs EXCEPT !.rax = RealPid]
                  /\ cstate' = "stop_exit"
                  /\ UNCHANGED <<mem, fdtab, legit>>
             [] nr = SYS_write ->
                  /\ regs' = [regs EXCEPT !.rax = regs.rdx]
                  /\ cstate' = "stop_exit"
                  /\ UNCHANGED <<mem, fdtab, legit>>
             \* no such system call (a disarmed one): RAX keeps -ENOSYS
             [] OTHER ->
                  /\ regs' = [regs EXCEPT !.rax = ENOSYS]
                  /\ cstate' = "stop_exit"
                  /\ UNCHANGED <<mem, fdtab, legit>>
    /\ UNCHANGED <<tracer_vars, ncalls, nsignals, opt_p, cur, ks_total>>

(* --------------------------- specification ---------------------------- *)

\* The command lines: no -p, -p, -p-1, -p5.
Options ==
    {[given |-> FALSE, hasarg |-> FALSE, arg |-> 0],
     [given |-> TRUE, hasarg |-> FALSE, arg |-> 0],
     [given |-> TRUE, hasarg |-> TRUE, arg |-> -1],
     [given |-> TRUE, hasarg |-> TRUE, arg |-> 5]}

\* The loop's first waitpid (line 183): the child runs the program it exec'd.
Init ==
    /\ opt_p \in Options
    /\ fake_pid = ParseFakePid(opt_p)
    /\ pc = "wait_entry"
    /\ exit_status = 0
    /\ monitor_fd = <<>>
    /\ buflen = 0
    /\ buf = <<>>
    /\ syscall = 0
    /\ size = 0
    /\ dest = 0
    /\ capture_fd = FALSE
    /\ cstate = "run_user"
    /\ regs = [orig_rax |-> InvalidSyscall, rax |-> 0, rdi |-> 0, rsi |-> 0, rdx |-> 0]
    /\ mem = [a \in Bufs |-> <<>>]
    /\ fdtab = [fd \in Fds |-> "closed"]
    /\ ncalls = 0
    /\ nsignals = 0
    /\ cur = [orig_rax |-> InvalidSyscall, rax |-> 0, rdi |-> 0, rsi |-> 0, rdx |-> 0]
    /\ ks_total = 0
    /\ legit = {}

\* Every stop the child reports is a system call's entry or exit.
NextSync == EntryStop \/ ExitStop \/ ChildEnter \/ KernelExec

SpecSync == Init /\ [][NextSync]_vars

\* The child also receives signals.
Next == EntryStop \/ ExitStop \/ ChildGone \/ ChildEnter \/ SignalStop \/ KernelExec

Spec == Init /\ [][Next]_vars

(* ----------------------------- properties ----------------------------- *)

\* The tracer has handled the exit stop of the child's latest system call
\* and the child is back in its own code.
Returned == pc = "wait_entry" /\ cstate = "run_user" /\ ncalls > 0

\* The child's latest call asks for entropy, and the tracer disarmed it.
Intercepted ==
    /\ cur.orig_rax \in {SYS_read, SYS_getrandom}
    /\ regs.orig_rax = InvalidSyscall

\* Count and destination the child passed to its latest read or getrandom.
AskedCount == IF cur.orig_rax = SYS_read THEN cur.rdx ELSE cur.rsi
AskedDest == IF cur.orig_rax = SYS_read THEN cur.rsi ELSE cur.rdi

\* C1 (conservation of stream): the bytes of every keystream fill are the
\* keystream bytes that follow those of all earlier fills: a fill of n bytes
\* after fills summing to t holds bytes t .. t+n-1, so that the fills of a
\* run, concatenated, are one keystream prefix.
ConservationOfStream == buf = Keystream(ks_total - Len(buf), Len(buf))

\* C2 (descriptor tracking soundness): a read of a nonzero count is disarmed
\* if and only if its descriptor is the value an earlier open of /dev/random
\* or /dev/urandom returned and no close of it was seen since.
DescriptorTrackingSoundness ==
    (cstate = "run_kernel" /\ cur.orig_rax = SYS_read /\ cur.rdx > 0)
        => ((regs.orig_rax = InvalidSyscall) <=> (cur.rdi \in legit))

\* C3 (full satisfaction): once an intercepted call of count n has returned,
\* the child's buffer holds n keystream bytes at the address it passed and
\* its return-value register holds n.
FullSatisfaction ==
    (Returned /\ Intercepted)
        => /\ regs.rax = AskedCount
           /\ Len(mem[AskedDest]) >= AskedCount
           /\ SubSeq(mem[AskedDest], 1, AskedCount) = SubSeq(buf, 1, AskedCount)

\* C4 (tracked-set accuracy): every monitored descriptor is a descriptor the
\* child holds open on an entropy device.
TrackedSetAccuracy ==
    \A i \in 1..nmonitor :
        monitor_fd[i] \in DOMAIN fdtab /\ fdtab[monitor_fd[i]] = "entropy"

\* C5 (no duplicates): the entries monitor_fd[0..nmonitor-1] are pairwise
\* distinct.
NoDuplicates ==
    \A i, j \in 1..nmonitor : i # j => monitor_fd[i] # monitor_fd[j]

\* C6 (only successful opens are tracked): every monitored descriptor is a
\* nonnegative integer; a failed open adds nothing.
OnlySuccessfulOpensTracked == \A i \in 1..nmonitor : monitor_fd[i] >= 0

\* C7 (open-path family): once an openat of /dev/random or /dev/urandom has
\* returned a descriptor, that descriptor is monitored.
OpenatTracked ==
    (Returned /\ cur.orig_rax = SYS_openat /\ IsEntropyName(CString(cur.rsi)) /\ regs.rax >= 0)
        => regs.rax \in Range(monitor_fd)

\* The pid the command line asks for: the value of -p, 2 when it has none.
ConfiguredPid == IF opt_p.hasarg THEN opt_p.arg ELSE 2

\* C8 (pid forgery): with -p, every getpid returns the configured pid,
\* whatever integer that is; without -p, getpid returns what the kernel
\* returned.
PidForgery ==
    (Returned /\ cur.orig_rax = SYS_getpid)
        => regs.rax = (IF opt_p.given THEN ConfiguredPid ELSE RealPid)

\* The child's latest call is one the tracer has nothing to substitute for.
PassThrough ==
    /\ ~(cur.orig_rax = SYS_getrandom /\ cur.rsi > 0)
    /\ ~(cur.orig_rax = SYS_read /\ cur.rdx > 0 /\ cur.rdi \in Range(monitor_fd))
    /\ ~(cur.orig_rax = SYS_getpid /\ opt_p.given)

\* C9 (pass-through frame): while the child is stopped in a call that is
\* neither an entropy call of nonzero count nor a getpid under -p, a step of
\* the tracer leaves the child's registers and memory and the keystream
\* position as they are, and the kernel runs the call the child issued.
PassThroughFrame ==
    [][/\ (pc' # pc /\ cstate \in {"stop_entry", "stop_exit"} /\ PassThrough)
            => (regs' = regs /\ mem' = mem /\ ks_total' = ks_total)
       /\ (cstate = "run_kernel" /\ PassThrough) => regs.orig_rax = cur.orig_rax]_vars

IsExitCall == ncalls > 0 /\ cur.orig_rax \in {SYS_exit, SYS_exit_group}

\* C10 (exit mirroring): when the child's call is exit or exit_group with
\* status s, the child is never resumed into it and the tracer ends with
\* status s; the tracer ends in no other way than by fatal().
ExitMirroring ==
    /\ IsExitCall => (cstate # "run_kernel" /\ (pc = "exited" => exit_status = cur.rdi))
    /\ (pc = "exited" /\ ~IsExitCall) => exit_status = ExitFailure

\* C11 (entry/exit ordering): the tracer and the child are in step: when the
\* tracer has taken a stop for a system call's entry and waits for its exit,
\* the child is in that system call (running it, or stopped at its exit);
\* when the tracer waits for an entry, the child is not inside a call.
EntryExitOrdering ==
    /\ pc = "wait_exit" => cstate \in {"run_kernel", "stop_exit"}
    /\ pc = "wait_entry" => cstate \in {"run_user", "stop_entry", "stop_signal"}

(* ------------------- a child that leaks descriptors ------------------- *)

\* Number of system calls of the child below.
MaxOpens == 17

\* A child that opens /dev/urandom again and again, and closes the
\* descriptor whenever the open gave it one.
ChildOpenLoop ==
    /\ cstate = "run_user"
    /\ ncalls < MaxOpens
    /\ LET c == IF ncalls > 0 /\ cur.orig_rax = SYS_open /\ regs.rax >= 0
                THEN Call(SYS_close, regs.rax, 0, 0)
                ELSE Call(SYS_open, PUrandom, 0, 0)
       IN  /\ regs' = c
           /\ cur' = c
    /\ ncalls' = ncalls + 1
    /\ cstate' = "stop_entry"
    /\ UNCHANGED <<tracer_vars, mem, fdtab, nsignals, opt_p, ks_total, legit>>

NextCap == EntryStop \/ ExitStop \/ ChildOpenLoop \/ SignalStop \/ KernelExec

\* The tracer with that child, signals included.
SpecCap == Init /\ [][NextCap]_vars

\* C12 (bounded tracker): the number of monitored descriptors never exceeds
\* the capacity of monitor_fd, so no add writes past the array's end.
BoundedTracker == 0 <= nmonitor /\ nmonitor <= Capacity

\* The tracker is full.
TrackerFull == nmonitor = Capacity

\* The tracer has ended by fatal().
FatalEnd == pc = "exited" /\ exit_status = ExitFailure

\* C13 (capacity error): the tracer ends fatally for capacity only at the
\* exit stop of an entropy-device open that has returned a nonnegative
\* descriptor while the tracker holds Capacity entries; an open that has
\* returned nothing yet, or an error, is not fatal.  (The child of SpecCap
\* gives the tracer no other reason to end.)
CapacityError ==
    FatalEnd => /\ nmonitor = Capacity
                /\ cur.orig_rax = SYS_open
                /\ regs.rax >= 0

\* The path fetch of the child's latest open moved fewer bytes than asked.
ShortFetch ==
    /\ ncalls > 0
    /\ cur.orig_rax = SYS_open
    /\ PathFetchCount(cur.rdi) # PathLen

\* The substitution for the child's latest call moves fewer bytes than asked.
ShortWrite == Intercepted /\ WriteCount(AskedDest, AskedCount) # AskedCount

\* C14 (partial transfer is fatal): once the tracer has handled a stop at
\* which a cross-process read or write moved fewer bytes than asked, or
\* failed, it has ended by fatal(): it does not go on with a partly filled
\* path buffer, nor return to the child after a short write.
PartialTransferFatal ==
    /\ (ShortFetch /\ cstate # "stop_entry") => FatalEnd
    /\ (ShortWrite /\ cstate \notin {"run_kernel", "stop_exit"}) => FatalEnd

\* The child's latest call is a getrandom of nonzero count.
EntropyRequest == ncalls > 0 /\ cur.orig_rax = SYS_getrandom /\ cur.rsi > 0

\* C15 (determinism of substituted bytes): what a getrandom of count n > 0
\* hands to the child is fixed by the key and the requests alone: when the
\* child runs on after the call, the return value is n and none of the bytes at its
\* destination is a byte of the host's entropy source.  A host byte there
\* makes two runs of the same child under the same key differ.
DeterministicSubstitution ==
    (cstate = "run_user" /\ EntropyRequest)
        => /\ regs.rax = cur.rsi
           /\ \A i \in 1..Min(cur.rsi, Len(mem[cur.rdi])) : mem[cur.rdi][i] # HostByte

\* The call the child is in is one the tracer substitutes for: a getrandom
\* of nonzero count, or a read of nonzero count on a monitored descriptor.
EntropyCall ==
    \/ cur.orig_rax = SYS_getrandom /\ cur.rsi > 0
    \/ cur.orig_rax = SYS_read /\ cur.rdx > 0 /\ cur.rdi \in Range(monitor_fd)

\* C16 (disarm before resume): while the kernel works on an entropy call of
\* nonzero count, the syscall-number register holds the invalid number, so
\* that the real read or getrandom is never executed; and the tracer fills
\* the child's buffer at a stop only when that stop is the exit stop of a
\* call disarmed at its entry stop.
DisarmBeforeResume ==
    /\ (cstate = "run_kernel" /\ EntropyCall) => regs.orig_rax = InvalidSyscall
    /\ (pc = "wait_exit" /\ size > 0 /\ cstate \in {"stop_entry", "stop_exit", "stop_signal"})
            => (cstate = "stop_exit" /\ Intercepted)

\* C17 (exact path match): when the tracer has handled the entry stop of an
\* open, capture_fd is set if and only if the string at the path argument is
\* exactly "/dev/random" or "/dev/urandom".
ExactPathMatch ==
    (pc = "wait_exit" /\ cstate = "run_kernel" /\ cur.orig_rax = SYS_open)
        => (capture_fd <=> IsEntropyName(CString(cur.rdi)))

\* The tracer handles the entry stop of a close and goes on.
CloseStep ==
    /\ pc = "wait_entry"
    /\ cstate = "stop_entry"
    /\ regs.orig_rax = SYS_close
    /\ pc' = "wait_exit"

\* C18 (close removes exactly one descriptor): at the entry stop of
\* close(fd), a monitored fd leaves M and every other member stays, with
\* nmonitor one less; for an fd that is not in M the tracker is unchanged.
CloseRemovesOne ==
    [][CloseStep =>
          /\ Range(monitor_fd') = Range(monitor_fd) \ {regs.rdi}
          /\ IF regs.rdi \in Range(monitor_fd)
             THEN Len(monitor_fd') = nmonitor - 1
             ELSE monitor_fd' = monitor_fd]_vars

\* The tracer decides at an entry stop to substitute size' bytes.
SubstitutionStep == pc = "wait_entry" /\ pc' = "wait_exit" /\ size' > 0

\* The tracer fills the buffer with size keystream bytes.
FillStep == pc = "wait_exit" /\ pc' # pc /\ size > 0

\* C19 (substitution buffer monotonicity): buflen never decreases; a step
\* that decides a substitution leaves it at the larger of its old value and
\* the new size, every other step leaves it as it is (so that, from 0, it is
\* the largest substitution size seen so far); and whenever the keystream
\* is written into the buffer, buflen is at least the size written.
BufferMonotone ==
    [][/\ buflen' >= buflen
       /\ buflen' = IF SubstitutionStep /\ size' > buflen THEN size' ELSE buflen
       /\ FillStep => (buflen >= size /\ Len(buf') = size)]_vars

\* A substitution smaller than the buffer is about to be filled.
BufferKept == pc = "wait_exit" /\ size > 0 /\ size < buflen

====
